---- MODULE Spec2Model ----
(***************************************************************************)
(* The Mega client of src/src/mega_api.py as a state machine: one client   *)
(* instance (its session and sid fields), the calls a caller can make on   *)
(* it, and the HTTP server as the environment that answers each POST.      *)
(***************************************************************************)
EXTENDS Integers, Sequences, FiniteSets, TLC

VARIABLES
    pc,        \* "new": Mega(...) not yet called; "ready": the instance exists
               \* and the caller is about to call it; "returned": a call has
               \* just ended and the caller looks at its outcome; "failed":
               \* the constructor raised, no instance exists
    email,     \* self.email
    password,  \* self.password
    session,   \* self.session
    sid,       \* self.sid
    last,      \* what the call that just ended did: its requests, the answers
               \* of the network, its outcome
    calc,      \* the run of one of the module-level functions (str_to_a32,
               \* a32_to_str, prepare_key, stringhash, base64url_decode): its
               \* arguments, its local variables and its position
    fs,        \* the local files of the migration tool of src/main.py, by path
    th,        \* the threads of the tool: the call each one runs (process_file,
               \* process_file_by_url, download_file_with_resume), its
               \* arguments, its local variables and its position
    io,        \* what the tool has asked of the two stores and of the HTTP
               \* server so far
    main       \* the multi-file mode of __main__: its position and the two
               \* Mongo collections

tool == <<fs, th, io, main>>
vars == <<pc, email, password, session, sid, last, calc, tool>>

-----------------------------------------------------------------------------
(* Bounds of the model.                                                     *)

\* longest JSON array the server answers with
MaxRespLen == 2
\* longest command list a caller hands to mega_api_request
MaxBatch == 2

-----------------------------------------------------------------------------
(* Python / JSON values.  A value is a record with a type tag t; n holds    *)
(* the number of an int, 0/1 of a bool, the length of a list; s holds the   *)
(* text of a str; csid, f and other describe the keys of a dict.            *)

Sc(t, n, s) == [t |-> t, n |-> n, s |-> s]
Absent == Sc("absent", 0, "")
J(t, n, s, csid, f, other) ==
    [t |-> t, n |-> n, s |-> s, csid |-> csid, f |-> f, other |-> other]
Lift(sc) == J(sc.t, sc.n, sc.s, Absent, Absent, FALSE)

None == Lift(Sc("null", 0, ""))
JInt(i) == Lift(Sc("int", i, ""))
JStr(x) == Lift(Sc("str", 0, x))
JBool(b) == Lift(Sc("bool", IF b THEN 1 ELSE 0, ""))
JList(len) == Lift(Sc("list", len, ""))
\* a dict: the value under "csid", the value under "f" (Absent: no such
\* key), and whether it has any other key
JDict(csid, f, other) == J("dict", 0, "", csid, f, other)

PyTrue == JBool(TRUE)
PyFalse == JBool(FALSE)

\* Python truth value testing (bool(v))
Truthy(v) ==
    CASE v.t = "null" -> FALSE
      [] v.t = "bool" -> v.n = 1
      [] v.t = "int" -> v.n # 0
      [] v.t = "str" -> v.s # ""
      [] v.t = "list" -> v.n > 0
      [] v.t = "dict" -> v.csid.t # "absent" \/ v.f.t # "absent" \/ v.other
      [] OTHER -> FALSE

\* Python's v == 0: bool is a subclass of int, so False == 0 is True
PyEqZero(v) == (v.t = "int" /\ v.n = 0) \/ (v.t = "bool" /\ v.n = 0)

IsDict(v) == v.t = "dict"
IsStr(v) == v.t = "str"
HasKey_csid(v) == v.csid.t # "absent"
HasKey_f(v) == v.f.t # "absent"

-----------------------------------------------------------------------------
(* The strings of the model.                                                *)

API_URL == JStr("https://g.api.mega.co.nz/cs")

\* the strings that requests accepts as a URL (they have an http(s) scheme)
HttpUrls == {"https://g.api.mega.co.nz/cs", "https://h/cs", "https://up/1"}
ValidUrl(u) == u.t = "str" /\ u.s \in HttpUrls

\* s[0] of a non-empty str
FirstChar(x) ==
    CASE x = "sid1" -> "s"
      [] x = "oops" -> "o"
      [] OTHER -> "h"

-----------------------------------------------------------------------------
(* The environment: what the server may answer to one POST.                 *)

Statuses == {200, 201, 204, 404, 500}

\* values of the "csid" key of a login answer
CsidValues ==
    {Sc("str", 0, "sid1"), Sc("str", 0, "https://h/cs"), Sc("str", 0, ""),
     Sc("null", 0, "")}

\* values of the "f" key of a list answer
FValues == {Sc("list", 0, ""), Sc("list", 2, ""), Sc("int", -9, "")}

\* the elements a server answer may carry at index 0
Elems ==
    {None, PyTrue, PyFalse, JInt(0), JInt(-1), JInt(-9), JInt(1),
     JStr(""), JStr("oops"), JStr("https://up/1"), JList(0),
     JDict(Absent, Absent, FALSE), JDict(Absent, Absent, TRUE)}
    \cup {JDict(c, Absent, FALSE) : c \in CsidValues}
    \cup {JDict(Sc("str", 0, "sid1"), Absent, TRUE)}
    \cup {JDict(Absent, g, FALSE) : g \in FValues}

\* the elements that follow index 0 in a longer answer
TailElems == {JInt(7), JStr("oops")}

RECURSIVE Tails(_)
Tails(k) ==
    IF k = 0 THEN {<<>>}
    ELSE {<<>>} \cup {<<x>> \o w : x \in TailElems, w \in Tails(k - 1)}

\* a response body: not JSON at all, a JSON array (elems), or any other
\* JSON value (val)
TextBody(x) == [json |-> FALSE, arr |-> FALSE, elems |-> <<>>, val |-> None, text |-> x]
ArrayBody(es) == [json |-> TRUE, arr |-> TRUE, elems |-> es, val |-> None, text |-> "json"]
ValueBody(v) == [json |-> TRUE, arr |-> FALSE, elems |-> <<>>, val |-> v, text |-> "json"]

Bodies ==
    {TextBody(""), TextBody("not json")}
    \cup {ArrayBody(<<>>)}
    \cup {ArrayBody(<<e>> \o w) : e \in Elems, w \in Tails(MaxRespLen - 1)}
    \cup {ValueBody(v) : v \in Elems \ {JList(0)}}

\* the answer of the network to one requests.post: a RequestException
\* (invalid URL, connection failure, timeout) or an HTTP response
NoBody == TextBody("")
NetFail(why) == [fail |-> TRUE, why |-> why, status |-> 0, body |-> NoBody]
NetResp(st, b) == [fail |-> FALSE, why |-> "", status |-> st, body |-> b]
NoNet == NetFail("none")

\* requests refuses a URL without a scheme before anything is sent
Answers(url) ==
    IF ~ValidUrl(url) THEN {NetFail("MissingSchema")}
    ELSE {NetFail("ConnectionError"), NetFail("Timeout")}
         \cup {NetResp(st, b) : st \in Statuses, b \in Bodies}

\* IdSamples of random.randint(0, 0x100000000)
IdSamples_Over == {<<0, 0>>, <<65536, 0>>}

\* the value of random.randint(0, 0xFFFFFFFF), as its two 16-bit halves
\* <<hi, lo>> (the id is hi * 65536 + lo)
IdSamples == {<<0, 0>>, <<65535, 65535>>}

-----------------------------------------------------------------------------
(* Commands and requests.                                                   *)

\* the data argument of mega_api_request: one dict, or a list of dicts
Dict(cmd) == [list |-> FALSE, dict |-> cmd, items |-> <<>>]
List(cmds) == [list |-> TRUE, dict |-> [a |-> ""], items |-> cmds]

\* Wrap without the wrapping of a single dict
Wrap_NoWrap(data) == data

\* if not isinstance(data, list): data = [data]
Wrap(data) == IF data.list THEN data ELSE List(<<data.dict>>)

\* json.dumps: a list becomes a JSON array, a dict a JSON object
json_dumps(data) ==
    IF data.list THEN [arr |-> TRUE, items |-> data.items]
    ELSE [arr |-> FALSE, items |-> <<data.dict>>]

RequestTimeout == 15

\* one call of requests.post
CommandPost(url, payload, id) ==
    [method |-> "POST", kind |-> "command", url |-> url, payload |-> payload,
     hasId |-> TRUE, id |-> id, timeout |-> RequestTimeout, size |-> 0]
DataPost(url, size) ==
    [method |-> "POST", kind |-> "data", url |-> url,
     payload |-> [arr |-> FALSE, items |-> <<>>],
     hasId |-> FALSE, id |-> <<0, 0>>, timeout |-> 0, size |-> size]

\* one record of self.logger
Log(level, msg, val) == [level |-> level, msg |-> msg, val |-> val]

-----------------------------------------------------------------------------
(* Mega.mega_api_request                                                    *)

\* the outcome of a call: it raised exc, or it returned ret
Returned(ret, reqs, nets, logs) ==
    [raised |-> FALSE, exc |-> "", ret |-> ret, reqs |-> reqs, nets |-> nets,
     logs |-> logs]
Raised(exc, reqs, nets, logs) ==
    [raised |-> TRUE, exc |-> exc, ret |-> None, reqs |-> reqs, nets |-> nets,
     logs |-> logs]

\* IsHttpError as a test for a status outside 200..299
IsHttpError_Non2xx(status) == status < 200 \/ status > 299

\* res.status_code != 200
IsHttpError(status) == status # 200

\* json_data[0] if json_data else None, on the decoded body.  Indexing an
\* int or a bool raises TypeError, indexing a dict with 0 raises KeyError,
\* indexing a str gives its first character.
Index0(body, reqs, nets) ==
    IF body.arr
    THEN IF Len(body.elems) > 0
         THEN Returned(body.elems[1], reqs, nets, <<>>)
         ELSE Returned(None, reqs, nets, <<>>)
    ELSE IF ~Truthy(body.val) THEN Returned(None, reqs, nets, <<>>)
    ELSE CASE body.val.t = "str" ->
                Returned(JStr(FirstChar(body.val.s)), reqs, nets, <<>>)
           [] body.val.t = "dict" -> Raised("KeyError", reqs, nets, <<>>)
           [] OTHER -> Raised("TypeError", reqs, nets, <<>>)

\* mega_api_request giving None for a body that is not JSON
mega_api_request_SwallowJson(data, base_url, id, net) ==
    LET payload == json_dumps(Wrap(data))
        reqs == <<CommandPost(base_url, payload, id)>>
        nets == <<net>>
    IN  IF net.fail
        THEN Raised("RequestException", reqs, nets, <<>>)
        ELSE IF IsHttpError(net.status)
        THEN Raised("Exception: MEGA API error: HTTP", reqs, nets, <<>>)
        ELSE IF ~net.body.json
        THEN Returned(None, reqs, nets, <<>>)
        ELSE Index0(net.body, reqs, nets)

\* mega_api_request posting a second time when the connection fails
mega_api_request_Retry(data, base_url, id, net) ==
    LET payload == json_dumps(Wrap(data))
        post == CommandPost(base_url, payload, id)
    IN  IF net.fail
        THEN Raised("RequestException", <<post, post>>, <<net, net>>, <<>>)
        ELSE IF IsHttpError(net.status)
        THEN Raised("Exception: MEGA API error: HTTP", <<post>>, <<net>>, <<>>)
        ELSE IF ~net.body.json
        THEN Raised("Exception: Invalid JSON response from MEGA API",
                    <<post>>, <<net>>, <<>>)
        ELSE Index0(net.body, <<post>>, <<net>>)

mega_api_request(data, base_url, id, net) ==
    LET payload == json_dumps(Wrap(data))
        reqs == <<CommandPost(base_url, payload, id)>>
        nets == <<net>>
    IN  IF net.fail
        THEN Raised("RequestException", reqs, nets,
                    <<Log("exception", "MEGA API connection failed", None)>>)
        ELSE IF IsHttpError(net.status)
        THEN Raised("Exception: MEGA API error: HTTP", reqs, nets,
                    <<Log("error", "HTTP", JInt(net.status)),
                      Log("debug", "HTTP", JInt(net.status))>>)
        ELSE IF ~net.body.json
        THEN Raised("Exception: Invalid JSON response from MEGA API", reqs, nets,
                    <<Log("error", "Non-JSON response", JStr(net.body.text))>>)
        ELSE Index0(net.body, reqs, nets)

-----------------------------------------------------------------------------
(* Bytes and 32-bit words.  A bytes object is a sequence of numbers in      *)
(* 0..255.  A 32-bit word is the pair <<hi, lo>> of its 16-bit halves (its  *)
(* value is hi * 65536 + lo).                                               *)

\* b'\0' * k
Zeros(k) == [i \in 1..k |-> 0]

\* int.from_bytes(s, 'big') of at most 4 bytes
RECURSIVE BigEndian(_)
BigEndian(s) ==
    IF Len(s) = 0 THEN 0
    ELSE BigEndian(SubSeq(s, 1, Len(s) - 1)) * 256 + s[Len(s)]
from_bytes(s) ==
    IF Len(s) <= 2 THEN <<0, BigEndian(s)>>
    ELSE <<BigEndian(SubSeq(s, 1, Len(s) - 2)), BigEndian(SubSeq(s, Len(s) - 1, Len(s)))>>

\* x.to_bytes(4, 'big')
to_bytes(x) == <<x[1] \div 256, x[1] % 256, x[2] \div 256, x[2] % 256>>

\* s[i:i + n] for the 0-based offset i
Slice(s, i, n) == SubSeq(s, i + 1, IF i + n <= Len(s) THEN i + n ELSE Len(s))

\* the chunks int.from_bytes is applied to: range(0, len(s), 4)
Chunks(s) == [k \in 1..((Len(s) + 3) \div 4) |-> Slice(s, 4 * (k - 1), 4)]

\* str_to_a32 without the padding to a multiple of 4
str_to_a32_NoPad(s) ==
    [k \in 1..((Len(s) + 3) \div 4) |-> from_bytes(Chunks(s)[k])]

str_to_a32(s) ==
    LET padded == s \o Zeros((0 - Len(s)) % 4)
    IN  [k \in 1..(Len(padded) \div 4) |-> from_bytes(Chunks(padded)[k])]

RECURSIVE a32_to_str(_)
a32_to_str(a) ==
    IF Len(a) = 0 THEN <<>> ELSE to_bytes(Head(a)) \o a32_to_str(Tail(a))

-----------------------------------------------------------------------------
(* Text.  A Python str is the sequence of its code points, a bytes object  *)
(* the sequence of its bytes, and the str a function returns is the         *)
(* sequence of its one-character strings.                                   *)

\* the UTF-8 encoding of one code point
utf8(c) ==
    IF c < 128 THEN <<c>>
    ELSE IF c < 2048 THEN <<192 + c \div 64, 128 + (c % 64)>>
    ELSE IF c < 65536
    THEN <<224 + c \div 4096, 128 + ((c \div 64) % 64), 128 + (c % 64)>>
    ELSE <<240 + c \div 262144, 128 + ((c \div 4096) % 64),
           128 + ((c \div 64) % 64), 128 + (c % 64)>>

\* str.encode(): 'utf-8' is the default encoding
RECURSIVE encode(_)
encode(str) ==
    IF Len(str) = 0 THEN <<>> ELSE utf8(Head(str)) \o encode(Tail(str))

\* lower without any change of case
lower_AsIs(str) == str

\* str.lower(), on the letters of ASCII and of Latin-1
lower(str) ==
    [i \in 1..Len(str) |->
        IF (str[i] >= 65 /\ str[i] <= 90)
              \/ (str[i] >= 192 /\ str[i] <= 222 /\ str[i] # 215)
        THEN str[i] + 32 ELSE str[i]]

\* the alphabet of base64.urlsafe_b64encode
B64 ==
    <<"A", "B", "C", "D", "E", "F", "G", "H", "I", "J", "K", "L", "M",
      "N", "O", "P", "Q", "R", "S", "T", "U", "V", "W", "X", "Y", "Z",
      "a", "b", "c", "d", "e", "f", "g", "h", "i", "j", "k", "l", "m",
      "n", "o", "p", "q", "r", "s", "t", "u", "v", "w", "x", "y", "z",
      "0", "1", "2", "3", "4", "5", "6", "7", "8", "9", "-", "_">>

\* base64.urlsafe_b64encode: 3 bytes give 4 characters, "=" fills the last 4
RECURSIVE urlsafe_b64encode(_)
urlsafe_b64encode(d) ==
    IF Len(d) = 0 THEN <<>>
    ELSE IF Len(d) = 1
    THEN <<B64[d[1] \div 4 + 1], B64[(d[1] % 4) * 16 + 1], "=", "=">>
    ELSE IF Len(d) = 2
    THEN <<B64[d[1] \div 4 + 1], B64[(d[1] % 4) * 16 + d[2] \div 16 + 1],
           B64[(d[2] % 16) * 4 + 1], "=">>
    ELSE <<B64[d[1] \div 4 + 1], B64[(d[1] % 4) * 16 + d[2] \div 16 + 1],
           B64[(d[2] % 16) * 4 + d[3] \div 64 + 1], B64[(d[3] % 64) + 1]>>
         \o urlsafe_b64encode(SubSeq(d, 4, Len(d)))

\* str.rstrip(ch)
RECURSIVE rstrip(_, _)
rstrip(str, ch) ==
    IF Len(str) > 0 /\ str[Len(str)] = ch
    THEN rstrip(SubSeq(str, 1, Len(str) - 1), ch)
    ELSE str

\* base64url_encode that keeps the padding
base64url_encode_Padded(data) == urlsafe_b64encode(data)

base64url_encode(data) == rstrip(urlsafe_b64encode(data), "=")

-----------------------------------------------------------------------------
(* The block cipher.  AES-128 belongs to the cryptography package, not to   *)
(* this program: in its place stands a keyed permutation of the 16-byte     *)
(* blocks (a rotation, the addition of the key and a multiplication modulo  *)
(* the prime 257), which tells one key from another and one block from      *)
(* another as the cipher does.                                              *)

BlockSize == 16

\* Cipher(algorithms.AES(k), modes.ECB()).encryptor().update(b), one block
AES_ECB(k, b) ==
    [j \in 1..BlockSize |->
        (((((b[(j % BlockSize) + 1] + k[j] + j) % 256) + 1) * 3) % 257) - 1]

\* block = s[i:i+16]; if len(block) < 16: block += b'\0' * (16 - len(block))
Block(s, i) ==
    LET block == Slice(s, i, BlockSize)
    IN  block \o Zeros(BlockSize - Len(block))

\* ^ on two numbers below 2^16
RECURSIVE BitXor(_, _)
BitXor(a, b) ==
    IF a = 0 THEN b
    ELSE IF b = 0 THEN a
    ELSE ((a + b) % 2) + 2 * BitXor(a \div 2, b \div 2)

\* ^ on two 32-bit words
Xor(x, y) == <<BitXor(x[1], y[1]), BitXor(x[2], y[2])>>

\* key = [0x93C467E3, 0x7DB0C7A4, 0xD1BE3F81, 0x0152CB56]
KdfInit == <<<<37828, 26595>>, <<32176, 51108>>, <<53694, 16257>>, <<338, 52054>>>>

\* range(0x10000)
KdfRounds == 65536

\* range(0x4000)
HashRounds == 16384

\* the body of the inner loop of prepare_key, with no chaining of the key
kdf_block_Unchained(key, password_bytes, i) ==
    str_to_a32(AES_ECB(a32_to_str(KdfInit), Block(password_bytes, i)))

\* the body of the inner loop of prepare_key: the key after the block at i
kdf_block(key, password_bytes, i) ==
    str_to_a32(AES_ECB(a32_to_str(key), Block(password_bytes, i)))

\* for j in range(4): h[j] ^= int.from_bytes(block[j*4:j*4+4], 'big')
hash_fold(h, email_bytes, i) ==
    LET block == Block(email_bytes, i)
    IN  [j \in 1..4 |-> Xor(h[j], from_bytes(Slice(block, 4 * (j - 1), 4)))]

\* h = str_to_a32(aes.update(a32_to_str(h)))
hash_round(h, key) == str_to_a32(AES_ECB(a32_to_str(key), a32_to_str(h)))

-----------------------------------------------------------------------------
(* The passwords and emails of the runs, and what the two functions of the  *)
(* login return for them.  prepare_key and stringhash are loops of 65536    *)
(* and 16384 rounds: the actions prepare_key_* and stringhash_* below run   *)
(* them a step at a time, and C18_KeyDerivation and C19_LoginHash check     *)
(* that they return what is written here.                                   *)

\* "pw1", "pw2", and a password of 16 characters and 17 bytes: its second
\* character is U+00E4
Pw1 == <<112, 119, 49>>
Pw2 == <<112, 119, 50>>
PwLong ==
    <<112, 228, 115, 115, 119, 111, 114, 100, 45, 115, 101, 99, 114, 101, 116, 49>>

\* "a@x.io", "A@X.IO", the same two with U+00C9 and U+00E9 as their first
\* character, and "long.name@example.org"
Em1 == <<97, 64, 120, 46, 105, 111>>
Em1Upper == <<65, 64, 88, 46, 73, 79>>
Em2Upper == <<201, 64, 120, 46, 105, 111>>
Em2 == <<233, 64, 120, 46, 105, 111>>
EmLong ==
    <<108, 111, 110, 103, 46, 110, 97, 109, 101, 64, 101,
      120, 97, 109, 112, 108, 101, 46, 111, 114, 103>>

\* what prepare_key(password) returns
prepare_key(pw) ==
    CASE pw = <<>> -> KdfInit
      [] pw = Pw1 ->
           <<<<29697, 16246>>, <<14284, 27354>>, <<50695, 12370>>, <<23238, 55373>>>>
      [] pw = Pw2 ->
           <<<<29773, 16246>>, <<14284, 27354>>, <<50695, 12370>>, <<23238, 55373>>>>
      [] pw = PwLong ->
           <<<<25433, 13943>>, <<31569, 31674>>, <<58258, 40821>>, <<37215, 11022>>>>

\* what stringhash(email, key) returns
stringhash(em, key) ==
    LET first == key = prepare_key(Pw1)
    IN  CASE em = <<>> ->
               IF first THEN <<"O", "a", "v", "y", "A", "1", "j", "i", "_", "-", "Q">>
               ELSE <<"F", "3", "O", "E", "v", "d", "j", "n", "A", "T", "Q">>
          [] em \in {Em1, Em1Upper} ->
               IF first THEN <<"F", "b", "3", "g", "F", "V", "j", "i", "_", "-", "Q">>
               ELSE <<"l", "X", "3", "t", "_", "9", "j", "n", "A", "T", "Q">>
          [] em \in {Em2, Em2Upper} ->
               IF first THEN <<"b", "9", "f", "7", "I", "F", "j", "i", "_", "-", "Q">>
               ELSE <<"f", "u", "s", "T", "7", "N", "j", "n", "A", "T", "Q">>
          [] em = EmLong ->
               IF first THEN <<"8", "Q", "f", "_", "0", "F", "f", "b", "Z", "_", "4">>
               ELSE <<"q", "b", "h", "Z", "l", "H", "T", "c", "h", "t", "U">>

-----------------------------------------------------------------------------
(* The session-scoped operations.  Each takes the fields of self it reads   *)
(* and the answers of the network, and gives the outcome of the call:       *)
(* result is what mega_api_request returned to it (hasResult: it did).      *)

Outcome(r, ret, hasResult, result, logs) ==
    [raised |-> r.raised, exc |-> r.exc, ret |-> ret, reqs |-> r.reqs,
     nets |-> r.nets, logs |-> r.logs \o logs,
     hasResult |-> hasResult, result |-> result]

\* nothing was requested
Local == Returned(None, <<>>, <<>>, <<>>)

\* the transport raised: the exception passes through the operation
Propagate(r) == Outcome(r, None, FALSE, None, <<>>)

\* LoginAccepted without the test for the "csid" key
LoginAccepted_AnyDict(result) == IsDict(result)

\* isinstance(result, dict) and "csid" in result
LoginAccepted(result) == IsDict(result) /\ HasKey_csid(result)

\* login_data with the key of the password added to the command
login_data_WithKey(em, pw) ==
    LET key == prepare_key(pw)
        uh == stringhash(lower(em), key)
    IN  Dict([a |-> "us", user |-> em, uh |-> uh, k |-> key])

\* key = prepare_key(password); uh = stringhash(email.lower(), key);
\* data = {"a": "us", "user": email, "uh": uh}
login_data(em, pw) ==
    LET key == prepare_key(pw)
        uh == stringhash(lower(em), key)
    IN  Dict([a |-> "us", user |-> em, uh |-> uh])

mega_login(em, pw, id, net) ==
    LET data == login_data(em, pw)
        r == mega_api_request(data, API_URL, id, net)
    IN  IF r.raised THEN Propagate(r)
        ELSE IF LoginAccepted(r.ret)
        THEN Outcome(r, r.ret, TRUE, r.ret,
                     <<Log("info", "login succeeded", Lift(r.ret.csid))>>)
        ELSE Outcome(r, None, TRUE, r.ret,
                     <<Log("error", "login failed", r.ret)>>)

\* NotLoggedIn as a test for the empty string only
NotLoggedIn_EmptyOnly(self_sid) == self_sid = JStr("")

\* if not self.sid
NotLoggedIn(self_sid) == ~Truthy(self_sid)

\* len(files) is defined
HasLen(v) == v.t \in {"list", "str", "dict"}

list_files(self_sid, id, net) ==
    IF NotLoggedIn(self_sid)
    THEN Outcome(Local, None, FALSE, None,
                 <<Log("error", "not logged in: list", None)>>)
    ELSE LET data == Dict([a |-> "f", c |-> 1])
             r == mega_api_request(data, self_sid, id, net)
         IN  IF r.raised THEN Propagate(r)
             ELSE IF IsDict(r.ret) /\ HasKey_f(r.ret)
             THEN IF HasLen(r.ret.f)
                  THEN Outcome(r, Lift(r.ret.f), TRUE, r.ret,
                               <<Log("info", "files", Lift(r.ret.f))>>)
                  ELSE Outcome(Raised("TypeError", r.reqs, r.nets, <<>>),
                               None, TRUE, r.ret, <<>>)
             ELSE Outcome(r, None, TRUE, r.ret,
                          <<Log("error", "list failed", r.ret)>>)

\* upload_res.status_code == 200
UploadOk(status) == status = 200

\* folder_node or "n"
Target(folder_node) == IF Truthy(folder_node) THEN folder_node.s ELSE "n"

\* the second part of upload_file: the POST of the file's bytes to the URL
\* that the "u" command returned
upload_data(r, size, net2) ==
    LET upload_url == r.ret
        r2 == [r EXCEPT !.reqs = r.reqs \o <<DataPost(upload_url, size)>>,
                        !.nets = r.nets \o <<net2>>]
        logs == <<Log("info", "upload url", upload_url)>>
    IN  IF net2.fail
        THEN Outcome(Raised("RequestException", r2.reqs, r2.nets, <<>>),
                     None, TRUE, r.ret, logs)
        ELSE IF UploadOk(net2.status)
        THEN Outcome(r2, PyTrue, TRUE, r.ret,
                     logs \o <<Log("info", "upload succeeded", None)>>)
        ELSE Outcome(r2, PyFalse, TRUE, r.ret,
                     logs \o <<Log("error", "upload failed", JInt(net2.status))>>)

\* upload_file up to the answer to the "u" command
upload_init(self_sid, exists, size, folder_node, id, net) ==
    IF NotLoggedIn(self_sid)
    THEN Outcome(Local, None, FALSE, None,
                 <<Log("error", "not logged in: upload", None)>>)
    ELSE IF ~exists
    THEN Outcome(Local, None, FALSE, None,
                 <<Log("error", "file not found", None)>>)
    ELSE LET data == Dict([a |-> "u", s |-> size, t |-> Target(folder_node)])
             r == mega_api_request(data, self_sid, id, net)
         IN  IF r.raised THEN Propagate(r)
             ELSE IF ~IsStr(r.ret)
             THEN Outcome(r, None, TRUE, r.ret,
                          <<Log("error", "upload init failed", r.ret)>>)
             ELSE Outcome(r, r.ret, TRUE, r.ret, <<>>)

\* GotUploadUrl without the test that the result is a str
GotUploadUrl_AnyResult(o) == ~o.raised /\ o.hasResult

\* whether upload_file goes on to post the file's bytes
GotUploadUrl(o) == ~o.raised /\ o.hasResult /\ IsStr(o.result)

upload_file(self_sid, exists, size, folder_node, id, net, net2) ==
    LET o == upload_init(self_sid, exists, size, folder_node, id, net)
    IN  IF GotUploadUrl(o) THEN upload_data(o, size, net2) ELSE o

\* result == 0
DeleteSucceeded(result) == PyEqZero(result)

delete_file(self_sid, node_id, id, net) ==
    IF NotLoggedIn(self_sid)
    THEN Outcome(Local, None, FALSE, None,
                 <<Log("error", "not logged in: delete", None)>>)
    ELSE LET data == Dict([a |-> "d", n |-> node_id])
             r == mega_api_request(data, self_sid, id, net)
         IN  IF r.raised THEN Propagate(r)
             ELSE IF DeleteSucceeded(r.ret)
             THEN Outcome(r, PyTrue, TRUE, r.ret,
                          <<Log("info", "delete succeeded", JStr(node_id))>>)
             ELSE Outcome(r, PyFalse, TRUE, r.ret,
                          <<Log("error", "delete failed", r.ret)>>)

-----------------------------------------------------------------------------
(* The inputs of the calls.                                                 *)

Emails == {Em1, Em1Upper}
Passwords == {Pw1, Pw2}
NodeIds == {"abc123"}
FolderNodes == {None, JStr(""), JStr("fold1")}
FileSizes == {0, 5}

\* the data a caller hands to mega_api_request directly
RECURSIVE Batches(_)
Batches(k) ==
    IF k = 0 THEN {<<>>}
    ELSE {<<>>} \cup {<<[a |-> "f", c |-> 1]>> \o w : w \in Batches(k - 1)}
DirectData ==
    {Dict([a |-> "f", c |-> 1]), Dict([a |-> "d", n |-> "abc123"])}
    \cup {List(w) : w \in Batches(MaxBatch)}

\* the answers to the POST of the file's bytes (upload_file reads only the
\* status of that response)
UploadAnswers(url) ==
    IF ~ValidUrl(url) THEN {NetFail("MissingSchema")}
    ELSE {NetFail("ConnectionError")}
         \cup {NetResp(st, TextBody("")) : st \in Statuses}

-----------------------------------------------------------------------------
(* The state machine.                                                       *)

\* the record of a call: its name, its arguments, the fields of self when
\* it was made, and its outcome
Call(op, args, o) ==
    [op |-> op, args |-> args, sidAtCall |-> sid, sessionAtCall |-> session,
     raised |-> o.raised, exc |-> o.exc, ret |-> o.ret, reqs |-> o.reqs,
     nets |-> o.nets, logs |-> o.logs, hasResult |-> o.hasResult,
     result |-> o.result]

NoCall ==
    [op |-> "none", args |-> <<>>, sidAtCall |-> None, sessionAtCall |-> None,
     raised |-> FALSE, exc |-> "", ret |-> None, reqs |-> <<>>, nets |-> <<>>,
     logs |-> <<>>, hasResult |-> FALSE, result |-> None]

\* the threads of the tool, and the two local paths their files can have
Threads == {1, 2}
LocalPaths == {"temp/x.bin", "temp/y.bin"}

\* no file at a path
NoFile == [exists |-> FALSE, ino |-> 0, data |-> <<>>]

\* a thread that runs nothing.  fn, pc and the arguments key, skip_existing,
\* dry_run belong to process_file / process_file_by_url, with local_path,
\* found (a file was at local_path when the call began), download_result,
\* uploading (upload_file has been called), sent (the bytes the upload
\* read), result and remove_failed (os.remove raised in the finally block);
\* d_pc and the rest are the download the thread runs: the position, the
\* recursion depth, the locals open_file_mode, file_size, bpct, the Range
\* sent by each data request, the last status, the open file (ino, pos), the
\* chunks still to come (todo), the chunks written (got) and the result
Idle ==
    [fn |-> "none", pc |-> "idle", key |-> "", skip_existing |-> FALSE,
     dry_run |-> FALSE, local_path |-> "", found |-> FALSE,
     download_result |-> "none", uploading |-> FALSE, sent |-> <<>>,
     result |-> "none", remove_failed |-> FALSE,
     d_pc |-> "idle", depth |-> 0, open_file_mode |-> "", file_size |-> 0,
     bpct |-> FALSE, ranged |-> <<>>, status |-> 0, ino |-> 0, pos |-> 0,
     todo |-> <<>>, got |-> <<>>, d_result |-> [value |-> "none", wraps |-> 0]]

\* nothing asked so far: calls counts the calls begun, requested the keys
\* whose download was requested, uploads the (key, bytes) pairs sent to S4
NoIo == [calls |-> 0, requested |-> {}, uploads |-> {}]

\* __main__ has not reached the multi-file mode
NoMain == [pc |-> "none", col |-> {}, metadata_col |-> {}, datas |-> <<>>]

\* the tool does not run
NoTool ==
    /\ fs = [p \in LocalPaths |-> NoFile]
    /\ th = [t \in Threads |-> Idle]
    /\ io = NoIo
    /\ main = NoMain

\* no function of the module is running
NoCalc == [fn |-> "none"]

\* no client has been constructed
NoClient ==
    /\ pc = "new"
    /\ email = <<>>
    /\ password = <<>>
    /\ session = None
    /\ sid = None
    /\ last = NoCall

Init ==
    /\ NoClient
    /\ NoTool
    /\ calc = NoCalc

\* self.session.get("csid") if self.session else None
SidOf(sess) == IF Truthy(sess) THEN Lift(sess.csid) ELSE None

\* Mega.__init__: logs in; when mega_login raises there is no instance
Mega_init ==
    /\ pc = "new"
    /\ \E em \in Emails, pw \in Passwords, id \in IdSamples, net \in Answers(API_URL) :
         LET o == mega_login(em, pw, id, net)
         IN  /\ last' = Call("__init__", <<em, pw>>, o)
             /\ UNCHANGED <<calc, tool>>
             /\ email' = em
             /\ password' = pw
             /\ IF o.raised
                THEN /\ pc' = "failed"
                     /\ UNCHANGED <<session, sid>>
                ELSE /\ pc' = "returned"
                     /\ session' = o.ret
                     /\ sid' = SidOf(o.ret)

\* a later call of mega_login on the instance: it returns the answer and
\* assigns no field of self
Mega_login ==
    /\ pc = "ready"
    /\ \E em \in Emails, pw \in Passwords, id \in IdSamples, net \in Answers(API_URL) :
         last' = Call("mega_login", <<em, pw>>, mega_login(em, pw, id, net))
    /\ pc' = "returned"
    /\ UNCHANGED <<email, password, session, sid, calc, tool>>

\* a direct call of mega_api_request with the default base_url
Mega_api_request ==
    /\ pc = "ready"
    /\ \E data \in DirectData, id \in IdSamples, net \in Answers(API_URL) :
         LET r == mega_api_request(data, API_URL, id, net)
         IN  last' = Call("mega_api_request", <<data>>,
                          Outcome(r, r.ret, ~r.raised, r.ret, <<>>))
    /\ pc' = "returned"
    /\ UNCHANGED <<email, password, session, sid, calc, tool>>

\* Mega_list_files dropping the session id when the call fails
Mega_list_files_Logout ==
    /\ pc = "ready"
    /\ \E id \in IdSamples, net \in Answers(sid) :
         LET o == list_files(sid, id, net)
         IN  /\ last' = Call("list_files", <<>>, o)
             /\ sid' = IF o.raised THEN None ELSE sid
    /\ pc' = "returned"
    /\ UNCHANGED <<email, password, session, calc, tool>>

Mega_list_files ==
    /\ pc = "ready"
    /\ \E id \in IdSamples, net \in Answers(sid) :
         last' = Call("list_files", <<>>, list_files(sid, id, net))
    /\ pc' = "returned"
    /\ UNCHANGED <<email, password, session, sid, calc, tool>>

Mega_upload_file ==
    /\ pc = "ready"
    /\ \E exists \in BOOLEAN, size \in FileSizes, fn \in FolderNodes,
          id \in IdSamples, net \in Answers(sid) :
         LET o == upload_init(sid, exists, size, fn, id, net)
         IN  \E net2 \in (IF GotUploadUrl(o) THEN UploadAnswers(o.ret) ELSE {NoNet}) :
               last' = Call("upload_file", <<exists, size, fn>>,
                            upload_file(sid, exists, size, fn, id, net, net2))
    /\ pc' = "returned"
    /\ UNCHANGED <<email, password, session, sid, calc, tool>>

Mega_delete_file ==
    /\ pc = "ready"
    /\ \E node_id \in NodeIds, id \in IdSamples, net \in Answers(sid) :
         last' = Call("delete_file", <<node_id>>, delete_file(sid, node_id, id, net))
    /\ pc' = "returned"
    /\ UNCHANGED <<email, password, session, sid, calc, tool>>

\* the caller has taken the outcome of the call and goes on
Return ==
    /\ pc = "returned"
    /\ pc' = "ready"
    /\ last' = NoCall
    /\ UNCHANGED <<email, password, session, sid, calc, tool>>

Next ==
    \/ Mega_init
    \/ Mega_login
    \/ Mega_api_request
    \/ Mega_list_files
    \/ Mega_upload_file
    \/ Mega_delete_file
    \/ Return

Spec == Init /\ [][Next]_vars

-----------------------------------------------------------------------------
(* Vocabulary of the properties.                                            *)

SessionOps == {"list_files", "upload_file", "delete_file"}

\* the call that just ended sent a command and the server answered it
Answered == Len(last.reqs) >= 1 /\ last.reqs[1].kind = "command" /\ ~last.nets[1].fail

\* the exceptions of the code, by the kind of error they report
HttpErrorExc == "Exception: MEGA API error: HTTP"
InvalidJsonExc == "Exception: Invalid JSON response from MEGA API"
IsTransportError(exc) == exc \in {"RequestException", HttpErrorExc}
IsProtocolError(exc) == exc = InvalidJsonExc

\* the caller can tell the server's result from what the call gave back
CarriesResult == last.raised \/ last.ret = last.result

-----------------------------------------------------------------------------
(* C1: a session-scoped operation (list_files, upload_file, delete_file)    *)
(* called while no session id is stored issues no request at all and        *)
(* returns None.                                                            *)
C1_NoRequestWhenUnauthenticated ==
    (last.op \in SessionOps /\ last.sidAtCall = None)
        => (last.reqs = <<>> /\ ~last.raised /\ last.ret = None)

C1_Witness ==
    /\ pc = "returned"
    /\ last.op = "list_files"
    /\ session = None
    /\ last.sidAtCall = None
    /\ last.reqs = <<>>

(* C2, as stated: the constructor's login stores the session iff the        *)
(* result is a dict with the session id field, and otherwise the caller     *)
(* gets an authentication error that carries the server's response.         *)
C2_LoginFailureCarriesResponse ==
    (last.op = "__init__" /\ last.hasResult)
        => IF LoginAccepted(last.result)
           THEN session = last.result /\ sid = Lift(last.result.csid)
           ELSE session = None /\ sid = None /\ CarriesResult

(* C2, amended: the constructor's login stores the session and its          *)
(* session id iff the result is a dict with the session id field; for       *)
(* every other result session and sid stay None, mega_login returns None    *)
(* without raising, and the server's response goes to the error log only.   *)
C2_LoginStoresSessionIffCsid ==
    (last.op = "__init__" /\ last.hasResult)
        => IF LoginAccepted(last.result)
           THEN /\ session = last.result
                /\ sid = Lift(last.result.csid)
                /\ last.ret = last.result
           ELSE /\ session = None
                /\ sid = None
                /\ ~last.raised
                /\ last.ret = None
                /\ \E i \in 1..Len(last.logs) :
                     last.logs[i] = Log("error", "login failed", last.result)

C2_Witness ==
    /\ last.op = "__init__"
    /\ last.hasResult
    /\ last.result = JDict(Absent, Absent, TRUE)
    /\ session = None
    /\ sid = None

(* C3: every command the client sends is a POST to the one fixed API URL.   *)
C3_EveryCommandToApiUrl ==
    \A i \in 1..Len(last.reqs) :
        last.reqs[i].kind = "command"
            => (last.reqs[i].method = "POST" /\ last.reqs[i].url = API_URL)

(* C4: no step changes the stored session or session id of a client that    *)
(* has one; in particular a session-scoped call that fails leaves both as   *)
(* they were.                                                               *)
C4_SessionKept ==
    [][(pc # "new" /\ session # None) => (session' = session /\ sid' = sid)]_vars

C4_Witness ==
    /\ pc = "returned"
    /\ last.op = "list_files"
    /\ last.raised
    /\ last.exc = HttpErrorExc
    /\ last.nets[1].status = 500
    /\ session # None
    /\ sid = last.sidAtCall
    /\ session = last.sessionAtCall

(* C5: a login call on an existing instance that succeeds replaces the      *)
(* stored session and session id with those of that login.                  *)
C5_NewLoginReplacesSession ==
    (last.op = "mega_login" /\ last.hasResult /\ LoginAccepted(last.result))
        => (session = last.result /\ sid = Lift(last.result.csid))

(* C6: a 200 answer whose body is valid JSON but not a non-empty array      *)
(* makes the request fail with a protocol error.                            *)
MalformedEnvelope(net) ==
    /\ net.status = 200
    /\ net.body.json
    /\ ~(net.body.arr /\ Len(net.body.elems) > 0)

C6_MalformedEnvelopeIsProtocolError ==
    (Answered /\ MalformedEnvelope(last.nets[1]))
        => (last.raised /\ IsProtocolError(last.exc))

(* C7: every command request carries a JSON array, a single command as a    *)
(* one-element array, and mega_api_request returns element 0 of a           *)
(* non-empty response array.                                                *)
C7_ArrayFraming ==
    /\ \A i \in 1..Len(last.reqs) :
          last.reqs[i].kind = "command" => last.reqs[i].payload.arr
    /\ (last.op = "mega_api_request" /\ ~last.args[1].list)
          => last.reqs[1].payload.items = <<last.args[1].dict>>
    /\ (last.op = "mega_api_request" /\ last.args[1].list)
          => last.reqs[1].payload.items = last.args[1].items
    /\ (last.op \in SessionOps /\ Len(last.reqs) >= 1)
          => Len(last.reqs[1].payload.items) = 1
    /\ (last.op = "mega_api_request" /\ Answered /\ last.nets[1].status = 200
            /\ last.nets[1].body.arr /\ Len(last.nets[1].body.elems) > 0)
          => (~last.raised /\ last.ret = last.nets[1].body.elems[1])

C7_Witness ==
    /\ last.op = "mega_api_request"
    /\ ~last.args[1].list
    /\ last.reqs[1].payload = [arr |-> TRUE, items |-> <<[a |-> "d", n |-> "abc123"]>>]
    /\ last.nets[1].status = 200
    /\ last.nets[1].body.arr
    /\ Len(last.nets[1].body.elems) = 2
    /\ last.ret = last.nets[1].body.elems[1]
    /\ last.ret # last.nets[1].body.elems[2]

(* C8: delete_file reports success iff the correlated result is the         *)
(* integer 0.                                                               *)
C8_DeleteSuccessIffZero ==
    (last.op = "delete_file" /\ last.hasResult)
        => ((last.ret = PyTrue) <=> (last.result = JInt(0)))

(* C9: when delete_file receives a nonzero result code, what the caller     *)
(* gets carries that code.                                                  *)
C9_DeleteFailureCarriesCode ==
    (last.op = "delete_file" /\ last.hasResult
        /\ last.result.t = "int" /\ last.result.n # 0)
        => CarriesResult

(* C10, as stated: the request fails with the HTTP error for every status   *)
(* outside 200..299 and for no status inside.                               *)
C10_Non2xxIsTransportError ==
    Answered
        => ((last.nets[1].status < 200 \/ last.nets[1].status > 299)
                <=> (last.raised /\ last.exc = HttpErrorExc))

(* C10, amended: the request fails with the HTTP error for every status     *)
(* other than 200, the other 2xx statuses included, and then yields no      *)
(* result; a 200 answer never fails with the HTTP error.                    *)
C10_Non200IsTransportError ==
    Answered
        => /\ (last.nets[1].status # 200)
                <=> (last.raised /\ last.exc = HttpErrorExc)
           /\ (last.nets[1].status # 200)
                => (IsTransportError(last.exc) /\ ~last.hasResult /\ last.ret = None)

C10_Witness ==
    /\ last.op = "mega_api_request"
    /\ Answered
    /\ last.nets[1].status = 201
    /\ last.nets[1].body = ArrayBody(<<JInt(0)>>)
    /\ last.raised
    /\ last.exc = HttpErrorExc


(* C11, as stated: a 2xx answer whose body is not valid JSON fails with a   *)
(* protocol error and gives the caller no result.                           *)
C11_2xxNonJsonIsProtocolError ==
    (Answered /\ last.nets[1].status >= 200 /\ last.nets[1].status <= 299
        /\ ~last.nets[1].body.json)
        => (last.raised /\ IsProtocolError(last.exc) /\ ~last.hasResult)

(* C11, amended: an answer with status 200 whose body is not valid JSON     *)
(* fails with the invalid-JSON error; under any other 2xx status the        *)
(* request fails too, with the HTTP status error; in both cases the caller  *)
(* gets no result.                                                          *)
C11_NonJsonIsProtocolError ==
    (Answered /\ ~last.nets[1].body.json)
        => /\ last.raised
           /\ ~last.hasResult
           /\ last.ret = None
           /\ (last.nets[1].status = 200 <=> last.exc = InvalidJsonExc)
           /\ (last.nets[1].status # 200 <=> last.exc = HttpErrorExc)

C11_Witness ==
    /\ last.op = "mega_api_request"
    /\ Answered
    /\ last.nets[1].status = 200
    /\ last.nets[1].body = TextBody("not json")
    /\ last.raised
    /\ last.exc = InvalidJsonExc

(* C12: a call of mega_api_request, of the login, of list_files or of       *)
(* delete_file makes at most one POST, whatever its outcome, and no call    *)
(* posts more than one command.                                             *)
CommandPosts(reqs) == {i \in 1..Len(reqs) : reqs[i].kind = "command"}

C12_NoRetry ==
    /\ last.op \in {"mega_api_request", "__init__", "mega_login", "list_files",
                    "delete_file"}
          => Len(last.reqs) <= 1
    /\ Cardinality(CommandPosts(last.reqs)) <= 1
    /\ Len(last.nets) = Len(last.reqs)

C12_Witness ==
    /\ last.op = "delete_file"
    /\ last.raised
    /\ last.exc = "RequestException"
    /\ last.nets[1].why = "Timeout"
    /\ Len(last.reqs) = 1


(* C14: upload_file sends the command {a: "u", s: size, t: folder or "n"}   *)
(* and goes on only when the result is a str; for any other result it       *)
(* logs an error, returns None and posts the file's bytes nowhere.          *)
DataPosts(reqs) == {i \in 1..Len(reqs) : reqs[i].kind = "data"}

C14_UploadInit ==
    last.op = "upload_file"
        => /\ Len(last.reqs) >= 1
                => last.reqs[1].payload.items =
                       <<[a |-> "u", s |-> last.args[2],
                          t |-> IF last.args[3] \in {None, JStr("")}
                                THEN "n" ELSE last.args[3].s]>>
           /\ (last.hasResult /\ ~IsStr(last.result))
                => /\ ~last.raised
                   /\ last.ret = None
                   /\ DataPosts(last.reqs) = {}
                   /\ \E i \in 1..Len(last.logs) :
                        last.logs[i] = Log("error", "upload init failed", last.result)
           /\ \A i \in DataPosts(last.reqs) :
                last.hasResult /\ IsStr(last.result) /\ last.reqs[i].url = last.result
           /\ last.ret = PyTrue => (last.hasResult /\ IsStr(last.result))

C14_Witness ==
    /\ last.op = "upload_file"
    /\ last.hasResult
    /\ last.result = JInt(-9)
    /\ last.ret = None
    /\ Len(last.reqs) = 1
    /\ last.reqs[1].payload.items = <<[a |-> "u", s |-> 5, t |-> "n"]>>

(* C15: list_files on a logged-in client returns the value of the "f" key   *)
(* when the answer has it, and for an answer without it, whatever its       *)
(* shape, logs the failure and returns None; no answer makes it raise.      *)
C15_ListNeverCrashes ==
    (last.op = "list_files" /\ Answered /\ last.nets[1].status = 200
        /\ last.nets[1].body.json)
        => /\ ~last.raised
           /\ IF last.hasResult /\ IsDict(last.result) /\ HasKey_f(last.result)
              THEN last.ret = Lift(last.result.f)
              ELSE last.ret = None

(* C16: every request of mega_api_request carries an id parameter whose     *)
(* value lies in 0 .. 2^32 - 1 (both 16-bit halves in 0 .. 65535).          *)
HalfMax == 65535

C16_IdInRange ==
    \A i \in CommandPosts(last.reqs) :
        /\ last.reqs[i].hasId
        /\ last.reqs[i].id[1] \in 0..HalfMax
        /\ last.reqs[i].id[2] \in 0..HalfMax

C16_Witness ==
    /\ last.op = "mega_api_request"
    /\ Len(last.reqs) = 1
    /\ last.reqs[1].hasId
    /\ last.reqs[1].id = <<HalfMax, HalfMax>>


-----------------------------------------------------------------------------
(* The word codec on its own: str_to_a32 of a bytes object, then            *)
(* a32_to_str of the result.                                                *)

\* longest bytes object converted
MaxBytes == 5
ByteSamples == {0, 1, 65, 255}

RECURSIVE BytesUpTo(_)
BytesUpTo(k) ==
    IF k = 0 THEN {<<>>}
    ELSE {<<>>} \cup {<<x>> \o w : x \in ByteSamples, w \in BytesUpTo(k - 1)}

InitCodec ==
    /\ NoClient
    /\ NoTool
    /\ \E b \in BytesUpTo(MaxBytes) :
         calc = [fn |-> "codec", pos |-> "start", s |-> b, a |-> <<>>, back |-> <<>>]

Call_str_to_a32 ==
    /\ calc.fn = "codec"
    /\ calc.pos = "start"
    /\ calc' = [calc EXCEPT !.pos = "words", !.a = str_to_a32(calc.s)]
    /\ UNCHANGED <<pc, email, password, session, sid, last, tool>>

Call_a32_to_str ==
    /\ calc.fn = "codec"
    /\ calc.pos = "words"
    /\ calc' = [calc EXCEPT !.pos = "bytes", !.back = a32_to_str(calc.a)]
    /\ UNCHANGED <<pc, email, password, session, sid, last, tool>>

NextCodec ==
    \/ Call_str_to_a32
    \/ Call_a32_to_str

SpecCodec == InitCodec /\ [][NextCodec]_vars

(* C17: a32_to_str(str_to_a32(b)) is b followed by zero bytes up to the     *)
(* next multiple of 4, and b itself when len(b) is a multiple of 4;         *)
(* str_to_a32(b) has ceil(len(b) / 4) words, each the big-endian value of   *)
(* its 4 bytes.                                                             *)
C17_RoundTrip ==
    /\ (calc.fn = "codec" /\ calc.pos \in {"words", "bytes"})
          => /\ Len(calc.a) * 4 >= Len(calc.s)
             /\ Len(calc.a) * 4 < Len(calc.s) + 4
             /\ \A k \in 1..Len(calc.a) :
                  LET byte(j) == IF j <= Len(calc.s) THEN calc.s[j] ELSE 0
                  IN  /\ calc.a[k][1] = byte(4 * k - 3) * 256 + byte(4 * k - 2)
                      /\ calc.a[k][2] = byte(4 * k - 1) * 256 + byte(4 * k)
    /\ (calc.fn = "codec" /\ calc.pos = "bytes")
          => /\ Len(calc.back) % 4 = 0
             /\ Len(calc.back) >= Len(calc.s)
             /\ Len(calc.back) < Len(calc.s) + 4
             /\ \A j \in 1..Len(calc.back) :
                  calc.back[j] = IF j <= Len(calc.s) THEN calc.s[j] ELSE 0
             /\ (Len(calc.s) % 4 = 0 => calc.back = calc.s)

C17_Witness ==
    /\ calc.fn = "codec"
    /\ calc.pos = "bytes"
    /\ calc.s = <<1, 65, 255, 0, 255>>
    /\ calc.a = <<<<321, 65280>>, <<65280, 0>>>>
    /\ calc.back = <<1, 65, 255, 0, 255, 0, 0, 0>>


-----------------------------------------------------------------------------
(* The run of prepare_key, a step at a time.  calc.round counts the rounds  *)
(* of the outer loop that have begun, calc.i is the offset of the inner     *)
(* loop.                                                                    *)

KdfPasswords == {<<>>, Pw1, Pw2, PwLong}

InitKdf ==
    /\ NoClient
    /\ NoTool
    /\ \E pw \in KdfPasswords :
         calc = [fn |-> "prepare_key", pos |-> "call", password |-> pw,
                 password_bytes |-> <<>>, key |-> <<>>, round |-> 0, i |-> 0,
                 ret |-> <<>>]

\* password_bytes = password.encode('utf-8'); key = [...]
prepare_key_call ==
    /\ calc.fn = "prepare_key"
    /\ calc.pos = "call"
    /\ calc' = [calc EXCEPT !.pos = "outer",
                            !.password_bytes = encode(calc.password),
                            !.key = KdfInit]
    /\ UNCHANGED <<pc, email, password, session, sid, last, tool>>

\* for _ in range(0x10000): the next round begins; with no byte in the
\* password the inner loop has no turn
prepare_key_round ==
    /\ calc.fn = "prepare_key"
    /\ calc.pos = "outer"
    /\ calc.round < KdfRounds
    /\ calc' = [calc EXCEPT !.round = calc.round + 1,
                            !.i = 0,
                            !.pos = IF Len(calc.password_bytes) > 0
                                    THEN "inner" ELSE "outer"]
    /\ UNCHANGED <<pc, email, password, session, sid, last, tool>>

\* for i in range(0, len(password_bytes), 16): one turn of the inner loop
prepare_key_block ==
    /\ calc.fn = "prepare_key"
    /\ calc.pos = "inner"
    /\ calc' = [calc EXCEPT !.key = kdf_block(calc.key, calc.password_bytes, calc.i),
                            !.i = calc.i + BlockSize,
                            !.pos = IF calc.i + BlockSize < Len(calc.password_bytes)
                                    THEN "inner" ELSE "outer"]
    /\ UNCHANGED <<pc, email, password, session, sid, last, tool>>

\* return key
prepare_key_return ==
    /\ calc.fn = "prepare_key"
    /\ calc.pos = "outer"
    /\ calc.round = KdfRounds
    /\ calc' = [calc EXCEPT !.pos = "return", !.ret = calc.key]
    /\ UNCHANGED <<pc, email, password, session, sid, last, tool>>

NextKdf ==
    \/ prepare_key_call
    \/ prepare_key_round
    \/ prepare_key_block
    \/ prepare_key_return

SpecKdf == InitKdf /\ [][NextKdf]_vars

\* byte j (from 1) of the 16-byte block at offset i of s, zero past the end
PaddedByte(s, i, j) == IF i + j <= Len(s) THEN s[i + j] ELSE 0

\* what one step of prepare_key may do
C18_Step ==
    calc.fn = "prepare_key" =>
      /\ calc.pos = "call" =>
           /\ calc'.key = KdfInit
           /\ calc'.round = 0
           /\ calc'.password_bytes = encode(calc.password)
      /\ calc.pos = "inner" =>
           /\ calc.i % BlockSize = 0 /\ calc.i < Len(calc.password_bytes)
           /\ calc'.key = str_to_a32(AES_ECB(a32_to_str(calc.key),
                              [j \in 1..BlockSize |->
                                  PaddedByte(calc.password_bytes, calc.i, j)]))
           /\ calc'.round = calc.round
           /\ IF calc.i + BlockSize < Len(calc.password_bytes)
              THEN calc'.pos = "inner" /\ calc'.i = calc.i + BlockSize
              ELSE calc'.pos = "outer"
      /\ (calc.pos = "outer" /\ calc'.pos # "return") =>
           /\ calc'.round = calc.round + 1
           /\ calc'.key = calc.key
           /\ calc'.pos = "inner" => calc'.i = 0
      /\ calc'.pos = "return" =>
           /\ calc.round = KdfRounds
           /\ calc'.ret = calc.key

\* C18: prepare_key starts from the fixed four words; each of its 65536
\* rounds takes the 16-byte blocks of the UTF-8 password in order, the last
\* one padded with zero bytes, and replaces the key by the block encrypted
\* under the key so far; what it returns is a function of the password alone
C18_KeyDerivation ==
    /\ [][C18_Step]_vars
    /\ []((calc.fn = "prepare_key" /\ calc.pos = "return") =>
             /\ calc.round = KdfRounds
             /\ Len(calc.ret) = 4
             /\ calc.ret = prepare_key(calc.password))

C18_Witness ==
    /\ calc.fn = "prepare_key"
    /\ calc.pos = "return"
    /\ calc.password = PwLong
    /\ Len(calc.password_bytes) = 17
    /\ calc.round = 65536
    /\ calc.ret = <<<<25433, 13943>>, <<31569, 31674>>, <<58258, 40821>>, <<37215, 11022>>>>


-----------------------------------------------------------------------------
(* The run of stringhash, a step at a time.  calc.i is the offset of the    *)
(* loop over the blocks of the email, calc.n counts the encryptions done.   *)

HashEmails == {<<>>, Em1, Em1Upper, Em2Upper, EmLong}
HashKeys == {prepare_key(Pw1), prepare_key(Pw2)}

InitHash ==
    /\ NoClient
    /\ NoTool
    /\ \E em \in HashEmails, key \in HashKeys :
         calc = [fn |-> "stringhash", pos |-> "call", email |-> em, key |-> key,
                 email_bytes |-> <<>>, h |-> <<>>, i |-> 0, n |-> 0,
                 out |-> <<>>, ret |-> <<>>]

\* email_bytes = email.lower().encode(); h = [0, 0, 0, 0]
stringhash_call ==
    /\ calc.fn = "stringhash"
    /\ calc.pos = "call"
    /\ LET email_bytes == encode(lower(calc.email))
       IN  calc' = [calc EXCEPT !.email_bytes = email_bytes,
                                !.h = <<<<0, 0>>, <<0, 0>>, <<0, 0>>, <<0, 0>>>>,
                                !.pos = IF Len(email_bytes) > 0
                                        THEN "fold" ELSE "encrypt"]
    /\ UNCHANGED <<pc, email, password, session, sid, last, tool>>

\* for i in range(0, len(email_bytes), 16): one block is folded into h
stringhash_fold ==
    /\ calc.fn = "stringhash"
    /\ calc.pos = "fold"
    /\ calc' = [calc EXCEPT !.h = hash_fold(calc.h, calc.email_bytes, calc.i),
                            !.i = calc.i + BlockSize,
                            !.pos = IF calc.i + BlockSize < Len(calc.email_bytes)
                                    THEN "fold" ELSE "encrypt"]
    /\ UNCHANGED <<pc, email, password, session, sid, last, tool>>

\* for _ in range(0x4000): one encryption of h
stringhash_encrypt ==
    /\ calc.fn = "stringhash"
    /\ calc.pos = "encrypt"
    /\ calc.n < HashRounds
    /\ calc' = [calc EXCEPT !.h = hash_round(calc.h, calc.key), !.n = calc.n + 1]
    /\ UNCHANGED <<pc, email, password, session, sid, last, tool>>

\* out = a32_to_str([h[0], h[2]]); return base64url_encode(out)
stringhash_return ==
    /\ calc.fn = "stringhash"
    /\ calc.pos = "encrypt"
    /\ calc.n = HashRounds
    /\ LET out == a32_to_str(<<calc.h[1], calc.h[3]>>)
       IN  calc' = [calc EXCEPT !.pos = "return", !.out = out,
                                !.ret = base64url_encode(out)]
    /\ UNCHANGED <<pc, email, password, session, sid, last, tool>>

NextHash ==
    \/ stringhash_call
    \/ stringhash_fold
    \/ stringhash_encrypt
    \/ stringhash_return

SpecHash == InitHash /\ [][NextHash]_vars

\* the big-endian word of the four bytes after byte number k of the block at i
PaddedWord(s, i, k) ==
    <<PaddedByte(s, i, k + 1) * 256 + PaddedByte(s, i, k + 2),
      PaddedByte(s, i, k + 3) * 256 + PaddedByte(s, i, k + 4)>>

\* what one step of stringhash may do
C19_Step ==
    calc.fn = "stringhash" =>
      /\ calc.pos = "call" =>
           /\ calc'.email_bytes = encode(lower(calc.email))
           /\ \A j \in 1..4 : calc'.h[j] = <<0, 0>>
           /\ Len(calc'.h) = 4 /\ calc'.n = 0 /\ calc'.i = 0
      /\ calc.pos = "fold" =>
           /\ calc.i % BlockSize = 0 /\ calc.i < Len(calc.email_bytes)
           /\ \A j \in 1..4 :
                calc'.h[j] = Xor(calc.h[j],
                                 PaddedWord(calc.email_bytes, calc.i, 4 * (j - 1)))
           /\ calc'.n = 0
           /\ IF calc.i + BlockSize < Len(calc.email_bytes)
              THEN calc'.pos = "fold" /\ calc'.i = calc.i + BlockSize
              ELSE calc'.pos = "encrypt"
      /\ (calc.pos = "encrypt" /\ calc'.pos = "encrypt") =>
           /\ calc'.n = calc.n + 1
           /\ calc'.h = str_to_a32(AES_ECB(a32_to_str(calc.key), a32_to_str(calc.h)))
      /\ calc'.pos = "return" =>
           /\ calc.n = HashRounds
           /\ calc'.out = to_bytes(calc.h[1]) \o to_bytes(calc.h[3])
           /\ calc'.ret = base64url_encode(calc'.out)
      /\ calc'.key = calc.key /\ calc'.email = calc.email

\* C19: stringhash lower-cases the email, folds the four big-endian words of
\* each zero-padded 16-byte block into four zero words with XOR, encrypts
\* the four words 16384 times under the key, each result being the next
\* input, and encodes words 0 and 2 of the last; the letter case of the
\* email does not change the hash
C19_LoginHash ==
    /\ [][C19_Step]_vars
    /\ []((calc.fn = "stringhash" /\ calc.pos = "return") =>
             /\ calc.n = HashRounds
             /\ calc.ret = stringhash(calc.email, calc.key)
             /\ calc.email = Em1Upper => calc.ret = stringhash(Em1, calc.key)
             /\ calc.email = Em2Upper => calc.ret = stringhash(Em2, calc.key))

C19_Witness ==
    /\ calc.fn = "stringhash"
    /\ calc.pos = "return"
    /\ calc.email = Em1Upper
    /\ calc.email_bytes = Em1
    /\ calc.key = prepare_key(Pw1)
    /\ calc.n = 16384
    /\ calc.ret = <<"F", "b", "3", "g", "F", "V", "j", "i", "_", "-", "Q">>

\* the characters of str
Chars(str) == {str[k] : k \in 1..Len(str)}

\* C20: the verifier stringhash returns has no "=" in it, has only
\* characters of the URL-safe Base64 alphabet, and is the encoding of 8
\* bytes (11 characters) whatever the length of the email; it is a function
\* of the email and the key alone
C20_Verifier ==
    (calc.fn = "stringhash" /\ calc.pos = "return") =>
      /\ "=" \notin Chars(calc.ret)
      /\ Chars(calc.ret) \subseteq Chars(B64)
      /\ Len(calc.out) = 8
      /\ Len(calc.ret) = 11
      /\ (Len(calc.ret) * 6) \div 8 = Len(calc.out)
      /\ calc.ret = stringhash(calc.email, calc.key)

C20_Witness ==
    /\ calc.fn = "stringhash"
    /\ calc.pos = "return"
    /\ calc.email = EmLong
    /\ Len(calc.email_bytes) = 21
    /\ calc.key = prepare_key(Pw2)
    /\ Len(calc.out) = 8
    /\ calc.ret = <<"q", "b", "h", "Z", "l", "H", "T", "c", "h", "t", "U">>


(* C13: no request of the client holds the password or the key made from    *)
(* it.  The login command has the fields a, user and uh and no other: the   *)
(* operation code, the email as given, and the verifier stringhash returns. *)
(* The commands of list_files, upload_file and delete_file are fixed by the *)
(* operation and its arguments, so they are the same under every password,  *)
(* and the POST of the file's bytes carries no command at all.              *)
C13_NoPasswordMaterial ==
    /\ last.op \in {"__init__", "mega_login"} =>
         \A i \in 1..Len(last.reqs) :
            /\ last.reqs[i].kind = "command"
            /\ Len(last.reqs[i].payload.items) = 1
            /\ LET cmd == last.reqs[i].payload.items[1]
               IN  /\ DOMAIN cmd = {"a", "user", "uh"}
                   /\ cmd.a = "us"
                   /\ cmd.user = last.args[1]
                   /\ cmd.uh = stringhash(lower(last.args[1]),
                                          prepare_key(last.args[2]))
                   /\ Len(cmd.uh) = 11
                   /\ Chars(cmd.uh) \subseteq Chars(B64)
    /\ last.op = "list_files" =>
         \A i \in 1..Len(last.reqs) :
            /\ last.reqs[i].kind = "command"
            /\ last.reqs[i].payload.items = <<[a |-> "f", c |-> 1]>>
    /\ last.op = "delete_file" =>
         \A i \in 1..Len(last.reqs) :
            /\ last.reqs[i].kind = "command"
            /\ last.reqs[i].payload.items = <<[a |-> "d", n |-> last.args[1]]>>
    /\ last.op = "upload_file" =>
         /\ \A i \in CommandPosts(last.reqs) :
               last.reqs[i].payload.items =
                   <<[a |-> "u", s |-> last.args[2],
                      t |-> IF Truthy(last.args[3]) THEN last.args[3].s ELSE "n"]>>
         /\ \A i \in DataPosts(last.reqs) :
               /\ last.reqs[i].payload.items = <<>>
               /\ last.reqs[i].size = last.args[2]

C13_Witness ==
    /\ last.op = "__init__"
    /\ password = Pw2
    /\ last.args = <<Em1Upper, Pw2>>
    /\ Len(last.reqs) = 1
    /\ last.reqs[1].payload.items =
           <<[a |-> "us", user |-> Em1Upper,
              uh |-> <<"l", "X", "3", "t", "_", "9", "j", "n", "A", "T", "Q">>]>>


(* C28: when the constructor's login was accepted, the stored session id   *)
(* is usable: self.session is non-empty exactly when self.sid passes the    *)
(* guard "if not self.sid", so no session operation of a client holding a   *)
(* session is refused as not logged in.                                     *)
C28_SessionUsable ==
    /\ pc \in {"ready", "returned"} => (Truthy(session) <=> ~NotLoggedIn(sid))
    /\ (last.op \in SessionOps /\ Truthy(last.sessionAtCall)) =>
          \A i \in 1..Len(last.logs) :
             last.logs[i].msg \notin {"not logged in: list",
                                      "not logged in: upload",
                                      "not logged in: delete"}

(* C30: the key prepare_key returns went through at least one encryption:   *)
(* for no password, the empty one included, is it the fixed initial key.    *)
C30_KeyNeverInitial ==
    (calc.fn = "prepare_key" /\ calc.pos = "return") => calc.ret # KdfInit


-----------------------------------------------------------------------------
(* base64url_decode.  base64.urlsafe_b64decode translates "-" and "_" to    *)
(* "+" and "/" and hands the text to binascii.a2b_base64, which is not in   *)
(* strict mode: it steps over every character that is not of the alphabet.  *)

\* longest text handed to base64url_decode
MaxText == 4

\* the 6 bits of a character after the translation, 64 for any other
B64Value(ch) ==
    IF ch \in {"+", "-"} THEN 62
    ELSE IF ch \in {"/", "_"} THEN 63
    ELSE IF \E k \in 1..62 : B64[k] = ch
    THEN (CHOOSE k \in 1..62 : B64[k] = ch) - 1
    ELSE 64

\* binascii.a2b_base64(data) from character i on: quad_pos is the place in
\* the group of 4, leftchar the bits not yet written, pads the "=" seen
RECURSIVE a2b_base64(_, _, _, _, _, _)
a2b_base64(data, i, quad_pos, leftchar, pads, bin_data) ==
    IF i > Len(data)
    THEN [raised |-> quad_pos # 0, ret |-> IF quad_pos # 0 THEN <<>> ELSE bin_data]
    ELSE IF data[i] = "="
    THEN IF quad_pos >= 2 /\ quad_pos + pads + 1 >= 4
         THEN [raised |-> FALSE, ret |-> bin_data]
         ELSE a2b_base64(data, i + 1, quad_pos, leftchar,
                         IF quad_pos >= 2 THEN pads + 1 ELSE pads, bin_data)
    ELSE IF B64Value(data[i]) = 64
    THEN a2b_base64(data, i + 1, quad_pos, leftchar, pads, bin_data)
    ELSE LET c == B64Value(data[i])
         IN  CASE quad_pos = 0 ->
                    a2b_base64(data, i + 1, 1, c, 0, bin_data)
               [] quad_pos = 1 ->
                    a2b_base64(data, i + 1, 2, c % 16, 0,
                               Append(bin_data, leftchar * 4 + c \div 16))
               [] quad_pos = 2 ->
                    a2b_base64(data, i + 1, 3, c % 4, 0,
                               Append(bin_data, leftchar * 16 + c \div 4))
               [] quad_pos = 3 ->
                    a2b_base64(data, i + 1, 0, 0, 0,
                               Append(bin_data, leftchar * 64 + c))

\* '=' * k
Pads(k) == [j \in 1..k |-> "="]

\* data += '=' * (-len(data) % 4); return base64.urlsafe_b64decode(data)
base64url_decode(data) ==
    a2b_base64(data \o Pads((0 - Len(data)) % 4), 1, 0, 0, 0, <<>>)

\* the texts of the runs of base64url_decode
TextChars == {"A", "Q", "_", "+", "!", "="}
RECURSIVE Texts(_)
Texts(k) ==
    IF k = 0 THEN {<<>>}
    ELSE LET shorter == Texts(k - 1)
         IN  shorter \cup {Append(t, ch) : t \in shorter, ch \in TextChars}

InitDecode ==
    /\ NoClient
    /\ NoTool
    /\ \E data \in Texts(MaxText) :
         calc = [fn |-> "base64url_decode", pos |-> "call", data |-> data,
                 raised |-> FALSE, ret |-> <<>>]

Call_base64url_decode ==
    /\ calc.fn = "base64url_decode"
    /\ calc.pos = "call"
    /\ LET r == base64url_decode(calc.data)
       IN  calc' = [calc EXCEPT !.pos = "return", !.raised = r.raised, !.ret = r.ret]
    /\ UNCHANGED <<pc, email, password, session, sid, last, tool>>

NextDecode == Call_base64url_decode

SpecDecode == InitDecode /\ [][NextDecode]_vars

(* C21: base64url_decode fails with a decode error for every text that has  *)
(* a character outside the URL-safe Base64 alphabet and for every text       *)
(* whose length is 1 more than a multiple of 4; it returns bytes for none.   *)
C21_DecodeRejects ==
    (calc.fn = "base64url_decode" /\ calc.pos = "return") =>
       (((\E k \in 1..Len(calc.data) : calc.data[k] \notin Chars(B64) \cup {"="})
           \/ Len(calc.data) % 4 = 1)
          => calc.raised)


(***************************************************************************)
(* The local file system, as the tool uses it.  A file is its chunks; ino  *)
(* tells one file at a path from the next one created there, so that a     *)
(* handle opened on a file that has since been removed writes to a file no *)
(* path names any more.                                                    *)
(***************************************************************************)

\* the most calls one run of a specification begins
MaxCalls == 2

\* os.path.exists / os.path.isfile / os.path.getsize
exists(files, p) == files[p].exists
getsize(files, p) == Len(files[p].data)

\* os.remove of an existing file
os_remove_Keeps(files, p) == files
os_remove(files, p) == [files EXCEPT ![p] = [exists |-> FALSE, ino |-> @.ino, data |-> <<>>]]

\* open(p, 'wb') truncates the file or creates it; open(p, 'ab') creates it
\* when it is absent and leaves it alone otherwise
open(files, p, mode) ==
    IF files[p].exists
    THEN IF mode = "wb" THEN [files EXCEPT ![p].data = <<>>] ELSE files
    ELSE [files EXCEPT ![p] = [exists |-> TRUE, ino |-> @.ino + 1, data |-> <<>>]]

\* f.write(chunk) through a handle opened on file ino of path p with the
\* given mode, pos chunks in: 'ab' writes at the end of the file, 'wb' at
\* the handle's position (zero-filled when the file was truncated meanwhile)
write(files, p, ino, mode, pos, chunk) ==
    IF ~(files[p].exists /\ files[p].ino = ino) THEN files
    ELSE LET d == files[p].data
             padded == IF pos > Len(d) THEN d \o [i \in 1..(pos - Len(d)) |-> "0"] ELSE d
         IN IF mode = "ab"
            THEN [files EXCEPT ![p].data = d \o <<chunk>>]
            ELSE [files EXCEPT ![p].data =
                     SubSeq(padded, 1, pos) \o <<chunk>> \o SubSeq(padded, pos + 2, Len(padded))]

(***************************************************************************)
(* The remote side: the keys of the documents, the object each key names   *)
(* and the answers of the HTTP server of download_file_with_resume.        *)
(***************************************************************************)

Keys == {"a/x.bin", "b/x.bin", "a/y.bin"}

\* os.path.join(tmp_dir, os.path.basename(key)) with tmp_dir = "temp"
join_basename(key) == IF key = "a/y.bin" THEN "temp/y.bin" ELSE "temp/x.bin"

\* the object behind a key, in chunks
Body(key) ==
    CASE key = "a/x.bin" -> <<"a1", "a2">>
      [] key = "b/x.bin" -> <<"b1", "b2">>
      [] key = "a/y.bin" -> <<"y1", "y2">>

\* the body of an error answer
ErrorBody == <<"err">>

\* the statuses the server answers a data request with
DataStatuses == {200, 206, 403, 404, 500}

\* the content-length the first request reports: none, the error body's,
\* the object's
ContentLengths == {0, 1, 2}

\* r.iter_content of the answer to a data request for bytes from-
Content(key, status, from) ==
    IF status = 200 THEN Body(key)
    ELSE IF status = 206 THEN SubSeq(Body(key), from + 1, Len(Body(key)))
    ELSE ErrorBody

\* a file left at a local path by an earlier run
Leftovers ==
    {NoFile} \cup {[exists |-> TRUE, ino |-> 1, data |-> d] :
                      d \in {<<"a1">>, <<"a1", "a2">>, <<"a1", "a2", "z">>}}


(***************************************************************************)
(* Downloader.download_file_with_resume, one action per step of the call   *)
(* of thread t; a request may raise, and the server chooses its answers.   *)
(***************************************************************************)

\* the most restarts of one call the model follows
MaxRestarts == 2

\* the call begins: the thread's locals are fresh
download_begin(t, fn, key, skip, dry) ==
    [Idle EXCEPT !.fn = fn, !.pc = "calling", !.key = key,
                 !.skip_existing = skip, !.dry_run = dry,
                 !.local_path = join_basename(key),
                 !.found = exists(fs, join_basename(key)),
                 !.d_pc = "exists"]

\* a direct call download_file_with_resume(url, file_path)
download_file_with_resume(t) ==
    /\ th[t].fn = "none"
    /\ io.calls < MaxCalls
    /\ \E key \in Keys :
          th' = [th EXCEPT ![t] =
                    download_begin(t, "download_file_with_resume", key, FALSE, FALSE)]
    /\ io' = [io EXCEPT !.calls = @ + 1]
    /\ UNCHANGED <<pc, email, password, session, sid, last, calc, fs, main>>

\* lines 67-69 and 79-82: is there a local file to resume
download_exists(t) ==
    /\ th[t].d_pc = "exists"
    /\ LET p == th[t].local_path IN
       th' = IF exists(fs, p)
             THEN [th EXCEPT ![t].file_size = getsize(fs, p),
                             ![t].open_file_mode = "ab",
                             ![t].d_pc = "first"]
             ELSE [th EXCEPT ![t].file_size = 0,
                             ![t].open_file_mode = "wb",
                             ![t].bpct = FALSE,
                             ![t].d_pc = "get"]
    /\ UNCHANGED <<pc, email, password, session, sid, last, calc, fs, io, main>>

\* lines 70-78: the first request and the comparison of the two sizes
download_first(t) ==
    /\ th[t].d_pc = "first"
    /\ LET p == th[t].local_path IN
       \E raised \in BOOLEAN, remote_file_size \in ContentLengths :
          IF raised
          THEN /\ th' = [th EXCEPT ![t].d_pc = "except"]
               /\ fs' = fs
          ELSE IF remote_file_size < th[t].file_size
          THEN IF exists(fs, p)
               THEN /\ fs' = os_remove(fs, p)
                    /\ th' = [th EXCEPT ![t].open_file_mode = "wb",
                                        ![t].file_size = 0,
                                        ![t].bpct = TRUE,
                                        ![t].d_pc = "get"]
               ELSE /\ th' = [th EXCEPT ![t].d_pc = "except"]
                    /\ fs' = fs
          ELSE IF remote_file_size = th[t].file_size
          THEN /\ th' = [th EXCEPT ![t].d_result = [value |-> "True", wraps |-> 0],
                                   ![t].d_pc = "return"]
               /\ fs' = fs
          ELSE /\ th' = [th EXCEPT ![t].bpct = TRUE, ![t].d_pc = "get"]
               /\ fs' = fs
    /\ UNCHANGED <<pc, email, password, session, sid, last, calc, io, main>>

\* lines 85-96: the data request, the restart when a resumed request is not
\* answered with 206, and the 404
download_get(t) ==
    /\ th[t].d_pc = "get"
    /\ LET p == th[t].local_path
           sent == [th EXCEPT ![t].ranged =
                       Append(@, [range |-> th[t].bpct, from |-> th[t].file_size,
                                   depth |-> th[t].depth])]
       IN
       \E raised \in BOOLEAN, status_code \in DataStatuses :
          IF raised
          THEN /\ th' = [sent EXCEPT ![t].d_pc = "except"]
               /\ fs' = fs
          ELSE IF th[t].bpct /\ status_code # 206
          THEN IF exists(fs, p)
               THEN /\ th[t].depth < MaxRestarts
                    /\ fs' = os_remove(fs, p)
                    /\ th' = [sent EXCEPT ![t].status = status_code,
                                          ![t].depth = @ + 1,
                                          ![t].d_pc = "exists"]
               ELSE /\ th' = [sent EXCEPT ![t].status = status_code,
                                          ![t].d_pc = "except"]
                    /\ fs' = fs
          ELSE IF status_code = 404
          THEN /\ th' = [sent EXCEPT ![t].status = status_code,
                                     ![t].d_pc = "except"]
               /\ fs' = fs
          ELSE /\ th' = [sent EXCEPT ![t].status = status_code,
                                     ![t].todo = Content(th[t].key, status_code, th[t].file_size),
                                     ![t].d_pc = "open"]
               /\ fs' = fs
    /\ io' = [io EXCEPT !.requested = @ \cup {th[t].key}]
    /\ UNCHANGED <<pc, email, password, session, sid, last, calc, main>>

\* lines 99-102: open(file_path, open_file_mode)
download_open(t) ==
    /\ th[t].d_pc = "open"
    /\ LET p == th[t].local_path IN
       /\ fs' = open(fs, p, th[t].open_file_mode)
       /\ th' = [th EXCEPT ![t].ino = fs'[p].ino, ![t].pos = 0, ![t].d_pc = "write"]
    /\ UNCHANGED <<pc, email, password, session, sid, last, calc, io, main>>

\* lines 112-120: one chunk of r.iter_content is written, or the connection
\* breaks
download_write(t) ==
    /\ th[t].d_pc = "write"
    /\ th[t].todo # <<>>
    /\ LET p == th[t].local_path IN
       \E raised \in BOOLEAN :
          IF raised
          THEN /\ th' = [th EXCEPT ![t].d_pc = "except"]
               /\ fs' = fs
          ELSE /\ fs' = write(fs, p, th[t].ino, th[t].open_file_mode, th[t].pos,
                              Head(th[t].todo))
               /\ th' = [th EXCEPT ![t].pos = @ + 1,
                                   ![t].got = Append(@, Head(th[t].todo)),
                                   ![t].todo = Tail(@)]
    /\ UNCHANGED <<pc, email, password, session, sid, last, calc, io, main>>

\* line 122: the body is exhausted, the file is closed
download_close(t) ==
    /\ th[t].d_pc = "write"
    /\ th[t].todo = <<>>
    /\ th' = [th EXCEPT ![t].d_result = [value |-> "True", wraps |-> 0],
                        ![t].d_pc = "return"]
    /\ UNCHANGED <<pc, email, password, session, sid, last, calc, fs, io, main>>

\* lines 123-129: any exception removes the local file and becomes the
\* message returned
download_except(t) ==
    /\ th[t].d_pc = "except"
    /\ LET p == th[t].local_path IN
       fs' = IF exists(fs, p) THEN os_remove(fs, p) ELSE fs
    /\ th' = [th EXCEPT ![t].d_result = [value |-> "msg", wraps |-> 0],
                        ![t].d_pc = "return"]
    /\ UNCHANGED <<pc, email, password, session, sid, last, calc, io, main>>

\* the timed wrapper of every frame of the call: the result is never None,
\* so each frame pairs what it is handed with its elapsed time
download_return(t) ==
    /\ th[t].d_pc = "return"
    /\ th' = [th EXCEPT ![t].d_result.wraps = th[t].depth + 1,
                        ![t].d_pc = "returned"]
    /\ UNCHANGED <<pc, email, password, session, sid, last, calc, fs, io, main>>

\* the caller of a direct call has its result
download_done(t) ==
    /\ th[t].fn = "download_file_with_resume"
    /\ th[t].d_pc = "returned"
    /\ th' = [th EXCEPT ![t] = Idle]
    /\ UNCHANGED <<pc, email, password, session, sid, last, calc, fs, io, main>>

\* direct calls of download_file_with_resume by one thread, with any files
\* left at the local paths
InitDownload ==
    /\ NoClient
    /\ calc = NoCalc
    /\ fs \in [LocalPaths -> Leftovers]
    /\ th = [t \in Threads |-> Idle]
    /\ io = NoIo
    /\ main = NoMain

NextDownload ==
    \/ download_file_with_resume(1)
    \/ download_exists(1)
    \/ download_first(1)
    \/ download_get(1)
    \/ download_open(1)
    \/ download_write(1)
    \/ download_close(1)
    \/ download_except(1)
    \/ download_return(1)
    \/ download_done(1)

SpecDownload == InitDownload /\ [][NextDownload]_vars


\* the statuses that report an error
ErrorStatuses == {403, 404, 500}

\* the local file holds the body of an error answer
HoldsErrorBody(p) == \E i \in 1..Len(fs[p].data) : fs[p].data[i] = "err"

\* C25: when download_file_with_resume returns after the server answered
\* its data request, it reports success (True) only if the answer's status
\* was 200 or 206, and after an error status (403, 404, 500) it reports
\* failure (the message) and no file holding the error body is left at
\* file_path
C25_SuccessOnlyOnSuccessStatus ==
    \A t \in Threads :
       (th[t].d_pc = "returned" /\ th[t].status # 0) =>
          /\ th[t].d_result.value = "True" => th[t].status \in {200, 206}
          /\ th[t].status \in ErrorStatuses =>
                /\ th[t].d_result.value = "msg"
                /\ ~HoldsErrorBody(th[t].local_path)

\* C29: a call of download_file_with_resume restarts at most once, the
\* local file is gone when the restarted attempt begins, and no data
\* request of the restarted attempt carries a Range header
C29_RestartOnce ==
    \A t \in Threads :
       /\ th[t].depth <= 1
       /\ (th[t].depth >= 1 /\ th[t].d_pc = "exists") => ~exists(fs, th[t].local_path)
       /\ \A i \in 1..Len(th[t].ranged) :
             th[t].ranged[i].depth >= 1 => ~th[t].ranged[i].range

\* a call that restarted has fetched the whole object and returned True
C29_Witness ==
    /\ th[1].fn = "download_file_with_resume"
    /\ th[1].d_pc = "returned"
    /\ th[1].depth = 1
    /\ Len(th[1].ranged) = 2
    /\ th[1].ranged[1].range
    /\ th[1].d_result.value = "True"
    /\ fs[th[1].local_path].data = Body(th[1].key)


(***************************************************************************)
(* AmazonS3.download_file, the download of process_file: a failure is      *)
(* answered with False and leaves what was written.                        *)
(***************************************************************************)

\* lines 125-130: head_object, which raises for a missing key or a refused
\* request, and makedirs
s3_download_file_head(t) ==
    /\ th[t].d_pc = "head"
    /\ \E raised \in BOOLEAN :
          th' = IF raised
                THEN [th EXCEPT ![t].d_result = [value |-> "False", wraps |-> 0],
                                ![t].d_pc = "return"]
                ELSE [th EXCEPT ![t].open_file_mode = "wb", ![t].d_pc = "s3_open"]
    /\ io' = [io EXCEPT !.requested = @ \cup {th[t].key}]
    /\ UNCHANGED <<pc, email, password, session, sid, last, calc, fs, main>>

\* line 133: open(local_file_path, "wb")
s3_download_file_open(t) ==
    /\ th[t].d_pc = "s3_open"
    /\ LET p == th[t].local_path IN
       /\ fs' = open(fs, p, "wb")
       /\ th' = [th EXCEPT ![t].ino = fs'[p].ino, ![t].pos = 0,
                           ![t].todo = Body(th[t].key), ![t].d_pc = "s3_write"]
    /\ UNCHANGED <<pc, email, password, session, sid, last, calc, io, main>>

\* lines 140-145: download_fileobj writes the next chunk, or raises
s3_download_file_write(t) ==
    /\ th[t].d_pc = "s3_write"
    /\ th[t].todo # <<>>
    /\ LET p == th[t].local_path IN
       \E raised \in BOOLEAN :
          IF raised
          THEN /\ th' = [th EXCEPT ![t].d_result = [value |-> "False", wraps |-> 0],
                                   ![t].d_pc = "return"]
               /\ fs' = fs
          ELSE /\ fs' = write(fs, p, th[t].ino, "wb", th[t].pos, Head(th[t].todo))
               /\ th' = [th EXCEPT ![t].pos = @ + 1,
                                   ![t].got = Append(@, Head(th[t].todo)),
                                   ![t].todo = Tail(@)]
    /\ UNCHANGED <<pc, email, password, session, sid, last, calc, io, main>>

\* lines 147-148: the object is written, the file is closed
s3_download_file_close(t) ==
    /\ th[t].d_pc = "s3_write"
    /\ th[t].todo = <<>>
    /\ th' = [th EXCEPT ![t].d_result = [value |-> "True", wraps |-> 0],
                        ![t].d_pc = "return"]
    /\ UNCHANGED <<pc, email, password, session, sid, last, calc, fs, io, main>>

(***************************************************************************)
(* process_file and process_file_by_url of src/main.py: the same steps,    *)
(* with the S3 download for the first and the resumable HTTP download for  *)
(* the second.                                                             *)
(***************************************************************************)

\* `not download_result`: the first element of the pair the timed download
\* returned is False; True, a message and a pair are all true
Falsy(r) == r.wraps = 0 /\ r.value = "False"

\* the finally block: os.remove(local_path), which removes the file unless
\* it raises
cleanup_OnSuccessOnly(files, p, ok, result) ==
    IF ok /\ result = "True" THEN os_remove(files, p) ELSE files
cleanup(files, p, ok, result) == IF ok THEN os_remove(files, p) ELSE files

\* a call begins: local_path, makedirs
process_begin(t, fn) ==
    /\ th[t].fn = "none"
    /\ io.calls < MaxCalls
    /\ \E key \in Keys, skip \in BOOLEAN, dry \in BOOLEAN :
          th' = [th EXCEPT ![t] =
                    [download_begin(t, fn, key, skip, dry) EXCEPT !.pc = "skip",
                                                                  !.d_pc = "idle"]]
    /\ io' = [io EXCEPT !.calls = @ + 1]
    /\ UNCHANGED <<pc, email, password, session, sid, last, calc, fs, main>>

process_file(t) == process_begin(t, "process_file")

process_file_by_url(t) == process_begin(t, "process_file_by_url")

\* skip_existing: MegaS4.exists calls self.client.find, which the boto3
\* client does not have, so the check raises
process_skip(t) ==
    /\ th[t].pc = "skip"
    /\ th' = [th EXCEPT ![t].pc = IF th[t].skip_existing THEN "except" ELSE "download"]
    /\ UNCHANGED <<pc, email, password, session, sid, last, calc, fs, io, main>>

\* the download is begun, unless dry_run
process_download(t) ==
    /\ th[t].pc = "download"
    /\ th' = IF th[t].dry_run
             THEN [th EXCEPT ![t].pc = "upload"]
             ELSE [th EXCEPT ![t].pc = "downloading",
                             ![t].d_pc = IF th[t].fn = "process_file"
                                         THEN "head" ELSE "exists"]
    /\ UNCHANGED <<pc, email, password, session, sid, last, calc, fs, io, main>>

\* download_result, download_sec = ...; if not download_result: raise
process_download_result(t) ==
    /\ th[t].pc = "downloading"
    /\ th[t].d_pc = "returned"
    /\ LET download_result == [th[t].d_result EXCEPT !.wraps = @ - 1] IN
       th' = [th EXCEPT ![t].download_result = download_result.value,
                        ![t].pc = IF Falsy(download_result) THEN "except" ELSE "upload"]
    /\ UNCHANGED <<pc, email, password, session, sid, last, calc, fs, io, main>>

\* the upload, unless dry_run: MegaS4.upload_file answers False when
\* local_path is not a file or the transfer raises, and sends the file's
\* bytes otherwise
process_upload(t) ==
    /\ th[t].pc = "upload"
    /\ LET p == th[t].local_path IN
       IF th[t].dry_run
       THEN /\ th' = [th EXCEPT ![t].result = "True", ![t].pc = "finally"]
            /\ io' = io
       ELSE IF ~exists(fs, p)
       THEN /\ th' = [th EXCEPT ![t].uploading = TRUE, ![t].pc = "except"]
            /\ io' = io
       ELSE \E raised \in BOOLEAN :
               IF raised
               THEN /\ th' = [th EXCEPT ![t].uploading = TRUE, ![t].pc = "except"]
                    /\ io' = io
               ELSE /\ th' = [th EXCEPT ![t].uploading = TRUE,
                                        ![t].sent = fs[p].data,
                                        ![t].result = "True",
                                        ![t].pc = "finally"]
                    /\ io' = [io EXCEPT !.uploads = @ \cup {<<th[t].key, fs[p].data>>}]
    /\ UNCHANGED <<pc, email, password, session, sid, last, calc, fs, main>>

\* except Exception: return False
process_except(t) ==
    /\ th[t].pc = "except"
    /\ th' = [th EXCEPT ![t].result = "False", ![t].pc = "finally"]
    /\ UNCHANGED <<pc, email, password, session, sid, last, calc, fs, io, main>>

\* finally: the temporary file is removed when it is there
process_finally(t) ==
    /\ th[t].pc = "finally"
    /\ LET p == th[t].local_path IN
       IF exists(fs, p)
       THEN \E ok \in BOOLEAN :
               /\ fs' = cleanup(fs, p, ok, th[t].result)
               /\ th' = [th EXCEPT ![t].remove_failed = ~ok, ![t].pc = "return"]
       ELSE /\ fs' = fs
            /\ th' = [th EXCEPT ![t].pc = "return"]
    /\ UNCHANGED <<pc, email, password, session, sid, last, calc, io, main>>

\* the timed wrapper hands the caller (result, elapsed)
process_return(t) ==
    /\ th[t].pc = "return"
    /\ th' = [th EXCEPT ![t].pc = "returned"]
    /\ UNCHANGED <<pc, email, password, session, sid, last, calc, fs, io, main>>

\* the caller has the result
process_done(t) ==
    /\ th[t].pc = "returned"
    /\ th' = [th EXCEPT ![t] = Idle]
    /\ UNCHANGED <<pc, email, password, session, sid, last, calc, fs, io, main>>

\* the steps of a call of thread t, whichever of the two it is
process_step(t) ==
    \/ process_skip(t)
    \/ process_download(t)
    \/ s3_download_file_head(t)
    \/ s3_download_file_open(t)
    \/ s3_download_file_write(t)
    \/ s3_download_file_close(t)
    \/ download_return(t)
    \/ process_download_result(t)
    \/ process_upload(t)
    \/ process_except(t)
    \/ process_finally(t)
    \/ process_return(t)
    \/ process_done(t)

\* one call at a time, as the single-file mode makes them
NextProcess ==
    \/ process_file(1)
    \/ process_file_by_url(1)
    \/ process_step(1)
    \/ download_exists(1)
    \/ download_first(1)
    \/ download_get(1)
    \/ download_open(1)
    \/ download_write(1)
    \/ download_close(1)
    \/ download_except(1)

SpecProcess == InitDownload /\ [][NextProcess]_vars


\* the calls of process_file and process_file_by_url
ProcessFns == {"process_file", "process_file_by_url"}

\* C22: a call of process_file or process_file_by_url with dry_run set
\* returns True having requested no download, called no upload, written
\* nothing, and with a file that was at its local path still there
C22_DryRunDoesNothing ==
    \A t \in Threads :
       (th[t].fn \in ProcessFns /\ th[t].dry_run /\ th[t].pc = "returned") =>
          /\ th[t].result = "True"
          /\ th[t].d_pc = "idle"
          /\ ~th[t].uploading
          /\ th[t].got = <<>>
          /\ th[t].found => exists(fs, th[t].local_path)

\* C23: when process_file or process_file_by_url has returned and os.remove
\* did not fail in its finally block, no file is at its local path
C23_NoTempFileLeft ==
    \A t \in Threads :
       (th[t].fn \in ProcessFns /\ th[t].pc = "returned" /\ ~th[t].remove_failed) =>
          ~exists(fs, th[t].local_path)

\* a call whose download wrote chunks to the local path and whose upload
\* failed has returned False
C23_Witness ==
    /\ th[1].fn \in ProcessFns
    /\ th[1].pc = "returned"
    /\ th[1].got # <<>>
    /\ th[1].uploading
    /\ th[1].result = "False"
    /\ ~th[1].remove_failed

\* C24: in process_file_by_url, once download_file_with_resume has reported
\* an error message, upload_file is not called and the call returns False
C24_FailedDownloadNotUploaded ==
    \A t \in Threads :
       (/\ th[t].fn = "process_file_by_url"
        /\ th[t].pc \notin {"downloading"}
        /\ th[t].d_result.value = "msg") =>
          /\ ~th[t].uploading
          /\ th[t].pc = "returned" => th[t].result = "False"


(***************************************************************************)
(* The fan-out of the multi-file mode: the workers of the thread pool run  *)
(* process_file side by side, in the same tmp_dir.                         *)
(***************************************************************************)

InitPool ==
    /\ NoClient
    /\ calc = NoCalc
    /\ NoTool

NextPool ==
    \E t \in Threads :
       \/ process_file(t)
       \/ process_step(t)

SpecPool == InitPool /\ [][NextPool]_vars

\* the call of thread t has its temporary file open or written and not yet
\* uploaded
Holding(t) ==
    /\ th[t].ino > 0
    /\ \/ th[t].pc = "downloading" /\ th[t].d_pc \in {"s3_write", "return", "returned"}
       \/ th[t].pc = "upload"

\* C26: while a call of process_file is downloading or about to upload, the
\* file at its local path is the one it opened and holds exactly the chunks
\* it wrote, whatever the other call does; and every upload sends the
\* bytes of the object of its own key
C26_NoInterference ==
    /\ \A t \in Threads :
          Holding(t) =>
             /\ exists(fs, th[t].local_path)
             /\ fs[th[t].local_path].ino = th[t].ino
             /\ fs[th[t].local_path].data = th[t].got
    /\ \A u \in io.uploads : u[2] = Body(u[1])


(***************************************************************************)
(* The multi-file mode of __main__: the metadata synchronisation loop and  *)
(* the processing loop.  A document is its code; col and metadata_col are  *)
(* the codes of the two collections, datas the cursor of the for loop.     *)
(***************************************************************************)

\* the most documents a collection holds
MaxDocs == 3

Codes == 1..MaxDocs

\* col.find({}): the documents in their stored order
RECURSIVE find(_)
find(docs) ==
    IF docs = {} THEN <<>>
    ELSE LET first == CHOOSE c \in docs : \A d \in docs : c <= d
         IN <<first>> \o find(docs \ {first})

\* lines 451-454: the two counts are compared
main_count ==
    /\ main.pc = "start"
    /\ main' = [main EXCEPT !.pc = IF Cardinality(main.col) # Cardinality(main.metadata_col)
                                   THEN "while_sync" ELSE "while_process"]
    /\ UNCHANGED <<pc, email, password, session, sid, last, calc, fs, th, io>>

\* lines 457-459: while True: datas = col.find({})
main_sync_find ==
    /\ main.pc = "while_sync"
    /\ main' = [main EXCEPT !.datas = find(main.col), !.pc = "for"]
    /\ UNCHANGED <<pc, email, password, session, sid, last, calc, fs, th, io>>

\* lines 461-477: one document is visited, and inserted when the metadata
\* collection has none with its code
main_sync_visit ==
    /\ main.pc = "for"
    /\ main.datas # <<>>
    /\ main' = [main EXCEPT !.metadata_col = @ \cup {Head(main.datas)},
                            !.datas = Tail(@)]
    /\ UNCHANGED <<pc, email, password, session, sid, last, calc, fs, th, io>>

\* line 457: the for loop is exhausted and nothing leaves the while loop
main_sync_again ==
    /\ main.pc = "for"
    /\ main.datas = <<>>
    /\ main' = [main EXCEPT !.pc = "while_sync"]
    /\ UNCHANGED <<pc, email, password, session, sid, last, calc, fs, th, io>>

\* lines 481-490: the documents are read; exit(0) when there is none, and
\* otherwise args.threads, an attribute the parser does not define
main_process ==
    /\ main.pc = "while_process"
    /\ main' = [main EXCEPT !.pc = IF main.col = {} THEN "exit" ELSE "AttributeError"]
    /\ UNCHANGED <<pc, email, password, session, sid, last, calc, fs, th, io>>

InitMain ==
    /\ NoClient
    /\ calc = NoCalc
    /\ fs = [p \in LocalPaths |-> NoFile]
    /\ th = [t \in Threads |-> Idle]
    /\ io = NoIo
    /\ \E col \in SUBSET Codes, metadata_col \in SUBSET Codes :
          main = [pc |-> "start", col |-> col, metadata_col |-> metadata_col,
                  datas |-> <<>>]

NextMain ==
    \/ main_count
    \/ main_sync_find
    \/ main_sync_visit
    \/ main_sync_again
    \/ main_process

SpecMain == InitMain /\ [][NextMain]_vars

\* C27: for a non-empty file collection, once the synchronisation loop has
\* visited every document it is left for the processing loop, and the
\* processing loop does not end in an error
C27_LoopsEnd ==
    [][main.col # {} =>
          /\ (main.pc = "for" /\ main.datas = <<>>) => main'.pc = "while_process"
          /\ main'.pc # "AttributeError"]_vars

====
